---- MODULE Spec2Model ----
(***************************************************************************)
(* herakles-node-exporter: the scan/cache engine (cache_updater.rs), the   *)
(* /metrics scrape handler (handlers/metrics.rs) and the /health handler   *)
(* (handlers/health.rs), as a state machine over the shared MetricsCache.  *)
(*                                                                         *)
(* A refresh (update_cache) is a sequence of steps separated by the places *)
(* where it acquires the tokio RwLock on the cache; a scrape is a sequence *)
(* of steps separated in the same way.  Variables whose comment says       *)
(* "history" are not program state: they record what has happened so that  *)
(* the properties can be stated.                                           *)
(***************************************************************************)
EXTENDS Integers, FiniteSets, Sequences, TLC

\* ---------------------------------------------------------------- bounds
NumScrapes == 2
MaxPid == 2
MaxCpu == 1

\* task 0 is the initial update_cache awaited by main; the others are the
\* background tasks that scrapes spawn, at most one per scrape
Tasks == 0..NumScrapes
Scrapes == 1..NumScrapes
PIDs == 1..MaxPid
CpuTimes == 1..MaxCpu
Names == {"nginx"}

\* An Instant is identified by the update_cache invocation that took it as
\* its `start`.  The handlers never read an Instant except to compare its
\* elapsed() with CACHE_UPDATE_THROTTLE_SECS, so the clock is kept as the
\* order in which the instants were taken (starts) and how many of the
\* oldest ones are by now at least that window in the past (aged).
\* Option<Instant>: None, or Some(the `start` of invocation t)

SomeInstant(t) == [some |-> TRUE, by |-> t]

\* ----------------------------------------------------------- classifier
\* the classification table: command name -> (group, subgroup)
\* (the last entry stands for one an additional subgroups file adds,
\* classifier.rs lines 77-92; every group of the table is lower-case, so
\* that comparing a group with "other" ignoring case is plain equality)
SUBGROUPS ==
    [n \in {"nginx", "postgres", "mytool"} |->
        CASE n = "nginx" -> <<"web", "nginx">>
          [] n = "postgres" -> <<"db", "postgres">>
          [] OTHER -> <<"other", "misc">>]

classify_process_raw(process_name) ==
    IF process_name \in DOMAIN SUBGROUPS
    THEN SUBGROUPS[process_name]
    ELSE <<"other", "unknown">>

\* a classifier that takes search_mode "exclude" for no filter
ClassifyIgnoringExclude(process_name, cfg) ==
    LET raw == classify_process_raw(process_name)
        group == raw[1]
        subgroup == raw[2]
        group_match == group \in cfg.search_groups
        subgroup_match == subgroup \in cfg.search_subgroups
        allowed == CASE cfg.search_mode = "include" -> group_match \/ subgroup_match
                     [] OTHER -> TRUE
    IN  IF cfg.disable_others /\ group = "other" THEN {}
        ELSE IF ~allowed THEN {}
        ELSE IF group = "other" THEN {<<"other", "other">>}
        ELSE {<<group, subgroup>>}

\* Option<(group, subgroup)>: the empty set is None, a singleton is Some
classify_process_with_config(process_name, cfg) ==
    LET raw == classify_process_raw(process_name)
        group == raw[1]
        subgroup == raw[2]
        group_match == group \in cfg.search_groups
        subgroup_match == subgroup \in cfg.search_subgroups
        allowed == CASE cfg.search_mode = "include" -> group_match \/ subgroup_match
                     [] cfg.search_mode = "exclude" -> ~(group_match \/ subgroup_match)
                     [] OTHER -> TRUE
    IN  IF cfg.disable_others /\ group = "other" THEN {}
        ELSE IF ~allowed THEN {}
        ELSE IF group = "other" THEN {<<"other", "other">>}
        ELSE {<<group, subgroup>>}

\* ------------------------------------------------------------- snapshot
\* ProcMem, restricted to the fields the handlers below read
ProcMem == [pid : PIDs, name : Names, cpu_time_seconds : CpuTimes]

\* the sets of samples with one sample per PID
SampleSets == {rs \in SUBSET ProcMem : \A a, b \in rs : a.pid = b.pid => a = b}

PidsOf(rs) == {r.pid : r \in rs}

EmptyMap == [p \in {} |-> 0]

\* a map left as it was
KeepEntries(m) == m

\* HashMap::clear
Clear(m) == EmptyMap

\* for p in &results { map.insert(p.pid, p.clone()) }
InsertAll(m, rs) ==
    [p \in (DOMAIN m) \cup PidsOf(rs) |->
        IF p \in PidsOf(rs) THEN CHOOSE r \in rs : r.pid = p ELSE m[p]]

\* the publish block's update of cache.processes (lines 363-366)
KeepOld(old, rs) == old

ReplaceProcesses(old, rs) == InsertAll(Clear(old), rs)

\* history: a set of samples as the PID map that holds exactly them
SamplesByPid(rs) == [p \in PidsOf(rs) |-> CHOOSE r \in rs : r.pid = p]

\* MetricsCache::default()
DefaultCache ==
    [processes |-> EmptyMap,
     last_updated |-> [some |-> FALSE, by |-> 0],
     update_success |-> FALSE,
     is_updating |-> FALSE]

\* the single-flight test of update_cache: proceed unless a refresh is running
ProceedAlways(c) == TRUE

MayProceed(c) == ~c.is_updating

\* step 1 of a refresh: the flags as the write block leaves them
MarkUpdatingAndClear(c) ==
    [c EXCEPT !.is_updating = TRUE, !.update_success = FALSE, !.processes = EmptyMap]

MarkUpdating(c) ==
    [c EXCEPT !.is_updating = TRUE, !.update_success = FALSE]

\* ----------------------------------------------------------------- lock
\* the tokio RwLock around the cache: who holds a guard between two steps
FreeLock == [writer |-> {}, treaders |-> {}, sreaders |-> {}]

CanWrite(l) == l.writer = {} /\ l.treaders = {} /\ l.sreaders = {}
CanRead(l) == l.writer = {}

WriteLock(l, t) == [l EXCEPT !.writer = {t}]
ReadLock(l, t) == [l EXCEPT !.treaders = @ \cup {t}]

\* the end of a block holding a read guard
KeepRead(l, t) == l

DropRead(l, t) == [l EXCEPT !.treaders = @ \ {t}]

\* the end of a block holding the write guard
KeepWrite(l, t) == l

DropWrite(l, t) == [l EXCEPT !.writer = @ \ {t}]

VARIABLES
    config,           \* state.config
    cache,            \* state.cache (MetricsCache)
    lock,             \* the guards held on state.cache
    tpc,              \* per update_cache invocation: where it is
    starts,           \* the `start` instants taken so far, oldest first
    aged,             \* how many of them are a throttle window old or more
    previous_cache,   \* per invocation: `previous_cache`
    results,          \* per invocation: `results`
    spc,              \* per scrape: where metrics_handler is
    group_aggregations, \* per scrape: `group_aggregations`
    group_cpu_seconds_total, \* state.metrics.group_cpu_seconds_total
    health,           \* the last /health response, with the history it was given in
    lastPublished,    \* history: the PID map of the most recent publish
    lastFinished,     \* history: outcome of the most recent refresh to finish
    scheduled,        \* history: tasks spawned since a refresh last set its flag
    spawner,          \* history: the scrape that spawned each task
    scan_ok,          \* history, per invocation: PIDs whose parse succeeded
    scan_failed,      \* history, per invocation: PIDs whose name or memory read failed
    okMaps            \* history, per scrape: maps published at or after its arrival


taskVars == <<tpc, previous_cache, results>>
clockVars == <<starts, aged>>
scrapeVars == <<spc, group_aggregations, group_cpu_seconds_total>>
historyVars == <<lastPublished, lastFinished, scheduled, spawner,
                 scan_ok, scan_failed, okMaps>>

NoResponse == [status |-> 0, last |-> "none"]

\* ------------------------------------------------- component variables
\* The state machine above keeps of a sample only what the handlers fold.
\* The specifications of single components (the per-sample pipeline of a
\* refresh, ...) have their own variables, which the exporter's state
\* machine leaves at their initial values.
VARIABLES
    ebpf,             \* state.ebpf: "none", or a manager "disabled" / "enabled"
    snapshot,         \* cache.processes with the fields a refresh computes
    cpu_cache,        \* state.cpu_cache
    now,              \* the clock (Instant::now and Utc::now), in whole ticks
    seen,             \* history: the PIDs that some snapshot has held so far
    cpu_cache_before, \* history: cpu_cache as the latest /proc scan found it
    ring,             \* one Ringbuffer
    pushed,           \* history: the entries pushed onto it, oldest first
    panicked,         \* a push has panicked (index out of bounds)
    entries_per_subgroup, \* RingbufferManager.entries_per_subgroup
    buffers,          \* RingbufferManager.buffers: subgroup key -> Ringbuffer
    rpc,              \* per refresh: where update_cache is
    timestamp,        \* per refresh: `timestamp` (line 413)
    pending,          \* per refresh: keys of aggregated_by_subgroup not yet recorded
    manager,          \* the RingbufferManager main builds, with its arguments
    in_use,           \* manager.buffers.len(): rings created so far
    recorded,         \* refreshes that have run their ring-update step
    filter_processes, \* the names of cache.processes, by PID
    metric_keys,      \* the (group, subgroup) series of the latest scrape
    ring_subgroups,   \* the subgroups ringbuffer_manager holds a ring for
    classified,       \* the latest call of classify_process_with_config
    procs,            \* processes_by_subgroup[key] of the subgroup recorded last
    top_cpu,          \* the top-3 arrays of its RingbufferEntry
    top_rss,
    top_pss,
    reads,            \* what the latest call of each EbpfManager method returned
    update_duration_seconds, \* cache.update_duration_seconds
    before,           \* history, per refresh: the cache as its guard found it
    analysed,         \* the latest classify_temporal_phase call and its result
    start_time,       \* the latest parse_start_time_seconds call and its result
    process_uptime    \* the uptime compute_live_snapshots derives from it

sampleVars == <<ebpf, snapshot, cpu_cache, now, seen, cpu_cache_before>>
ringVars == <<ring, pushed, panicked>>
recordVars == <<entries_per_subgroup, buffers, rpc, timestamp, pending>>
managerVars == <<manager, in_use, recorded>>
filterVars == <<filter_processes, metric_keys, ring_subgroups, classified>>
topVars == <<procs, top_cpu, top_rss, top_pss>>
ebpfVars == <<reads>>
flagVars == <<update_duration_seconds, before>>
detailsVars == <<analysed, start_time, process_uptime>>
auxVars == <<topVars, ebpfVars, flagVars, detailsVars>>
componentVars == <<sampleVars, ringVars, recordVars, managerVars, filterVars, auxVars>>

coreVars == <<config, cache, lock, starts, aged, tpc, previous_cache, results,
              spc, group_aggregations, group_cpu_seconds_total, health,
              lastPublished, lastFinished, scheduled, spawner, scan_ok,
              scan_failed, okMaps>>

\* main, lines 393-421 and 450-453, before any refresh
SamplesIdle ==
    /\ ebpf = "none"
    /\ snapshot = EmptyMap
    /\ cpu_cache = EmptyMap
    /\ now = 1
    /\ seen = {}
    /\ cpu_cache_before = EmptyMap

vars == <<coreVars, componentVars>>

NewRingbuffer(capacity) ==
    [entries |-> [i \in 1..capacity |-> [timestamp |-> 0]],
     capacity |-> capacity,
     write_index |-> 0,
     count |-> 0]

RingIdle ==
    /\ ring = NewRingbuffer(1)
    /\ pushed = <<>>
    /\ panicked = FALSE

NumRefreshes == 2
Refreshes == 1..NumRefreshes

RecordIdle ==
    /\ entries_per_subgroup = 1
    /\ buffers = EmptyMap
    /\ rpc = [t \in Refreshes |-> "spawned"]
    /\ timestamp = [t \in Refreshes |-> 0]
    /\ pending = [t \in Refreshes |-> {}]

ManagerIdle ==
    /\ manager = [built |-> FALSE]
    /\ in_use = EmptyMap
    /\ recorded = 0

\* no call of the classifier yet
NotCalled == [called |-> FALSE]

FilterIdle ==
    /\ filter_processes = EmptyMap
    /\ metric_keys = {}
    /\ ring_subgroups = {}
    /\ classified = NotCalled

\* TopProcessInfo::default()
DefaultTopProcessInfo == [pid |-> 0, value |-> 0]

\* the methods of EbpfManager that read
EbpfReads == {"is_enabled", "read_process_net_stats",
              "read_process_blkio_stats", "read_tcp_stats"}
\* the variables of the component specifications below, before any of
\* their steps: no top-3 array recorded, no EbpfManager method called,
\* MetricsCache::default() (update_duration_seconds = 0.0), no refresh past
\* its guard, nothing analysed, parsed or derived
AuxIdle ==
    /\ procs = <<>>
    /\ top_cpu = [i \in 1..3 |-> DefaultTopProcessInfo]
    /\ top_rss = [i \in 1..3 |-> DefaultTopProcessInfo]
    /\ top_pss = [i \in 1..3 |-> DefaultTopProcessInfo]
    /\ reads = [m \in EbpfReads |-> [called |-> FALSE]]
    /\ update_duration_seconds = 0
    /\ before = [t \in Refreshes |-> NotCalled]
    /\ analysed = NotCalled
    /\ start_time = NotCalled
    /\ process_uptime = NotCalled

CoreInit ==
    /\ config \in [test_data_file : BOOLEAN, include_names : {{}}, exclude_names : {{}}, enable_cpu : {TRUE}, disable_others : {FALSE}, search_mode : {"none"}, search_groups : {{}}, search_subgroups : {{}}]
    /\ cache = DefaultCache
    /\ lock = FreeLock
    /\ tpc = [t \in Tasks |-> IF t = 0 THEN "spawned" ELSE "idle"]
    /\ starts = <<>>
    /\ aged = 0
    /\ previous_cache = [t \in Tasks |-> EmptyMap]
    /\ results = [t \in Tasks |-> {}]
    /\ spc = [s \in Scrapes |-> "idle"]
    /\ group_aggregations = [s \in Scrapes |-> EmptyMap]
    /\ group_cpu_seconds_total = EmptyMap
    /\ health = NoResponse
    /\ lastPublished = EmptyMap
    /\ lastFinished = "none"
    /\ scheduled = 0
    /\ spawner = [t \in Tasks |-> 0]
    /\ scan_ok = [t \in Tasks |-> {}]
    /\ scan_failed = [t \in Tasks |-> {}]
    /\ okMaps = [s \in Scrapes |-> {}]

Init ==
    /\ CoreInit
    /\ SamplesIdle
    /\ RingIdle
    /\ RecordIdle
    /\ ManagerIdle
    /\ FilterIdle
    /\ AuxIdle

\* main serves HTTP only after it has awaited the initial update_cache
ServerUp == tpc[0] = "done"

\* instant.elapsed().as_secs() >= CACHE_UPDATE_THROTTLE_SECS
ElapsedAtLeastThrottle(instant) ==
    \E i \in 1..aged : starts[i] = instant.by

\* time passes: the oldest instant younger than the window reaches it
Tick ==
    /\ aged < Len(starts)
    /\ aged' = aged + 1
    /\ UNCHANGED <<componentVars, config, cache, lock, starts, taskVars, scrapeVars, health,
                   historyVars>>

\* ------------------------------------------------- update_cache (refresh)
\* should_include_process: a name is kept unless an exclude pattern matches
\* it, or include patterns are given and none matches it
should_include_process(name, cfg) ==
    IF name \in cfg.exclude_names THEN FALSE
    ELSE IF cfg.include_names # {} THEN name \in cfg.include_names
    ELSE TRUE

\* the closure run by par_iter().filter_map for one entry: the samples it
\* emits (none or one).  min_uss_kb is 0, so no sample is below the threshold.
ParseEntry(pid, outcome, name, cpu_time, cfg) ==
    IF outcome = "noname" THEN {}
    ELSE IF ~should_include_process(name, cfg) THEN {}
    ELSE IF outcome = "memerr" THEN {}
    ELSE {[pid |-> pid, name |-> name, cpu_time_seconds |-> cpu_time]}

\* where update_cache goes after building `results`: only a synthetic
\* dataset that cannot be loaded makes it leave early
AbortOnAnyFailure(use_test_data, load_ok, failed) ==
    IF (use_test_data /\ ~load_ok) \/ failed # {} THEN "failexit" ELSE "publish"

AfterScan(use_test_data, load_ok, failed) ==
    IF use_test_data /\ ~load_ok THEN "failexit" ELSE "publish"

\* lines 115-129: read `start`, then the first write block: return if a
\* refresh is running, else set is_updating and clear update_success
Guard(t) ==
    /\ tpc[t] = "spawned"
    /\ CanWrite(lock)
    /\ lock' = DropWrite(WriteLock(lock, t), t)
    /\ IF MayProceed(cache)
       THEN /\ cache' = MarkUpdating(cache)
            /\ tpc' = [tpc EXCEPT ![t] = "clone"]
            /\ starts' = Append(starts, t)
            /\ scheduled' = 0
       ELSE /\ tpc' = [tpc EXCEPT ![t] = "done"]
            /\ UNCHANGED <<cache, starts, scheduled>>
    /\ UNCHANGED <<componentVars, config, aged, previous_cache, results, scrapeVars,
                   health, lastPublished, lastFinished, spawner, scan_ok,
                   scan_failed, okMaps>>

\* the read block (lines 142-145): clone the previous PID map
Clone(t) ==
    /\ tpc[t] = "clone"
    /\ CanRead(lock)
    /\ previous_cache' = [previous_cache EXCEPT ![t] = cache.processes]
    /\ lock' = DropRead(ReadLock(lock, t), t)
    /\ tpc' = [tpc EXCEPT ![t] = "scan"]
    /\ UNCHANGED <<componentVars, config, clockVars, cache, results, scrapeVars,
                   health, historyVars>>

\* lines 147-305 with a synthetic dataset: load it, keep the included ones
ScanTestData(t) ==
    /\ tpc[t] = "scan"
    /\ config.test_data_file
    /\ \E load_ok \in BOOLEAN, test_data \in SampleSets :
         /\ ~load_ok => test_data = {}
         /\ results' = [results EXCEPT ![t] =
                {tp \in test_data : should_include_process(tp.name, config)}]
         /\ scan_ok' = [scan_ok EXCEPT ![t] = PidsOf(results'[t])]
         /\ tpc' = [tpc EXCEPT ![t] = AfterScan(TRUE, load_ok, {})]
    /\ UNCHANGED <<componentVars, config, clockVars, cache, lock, previous_cache, scrapeVars,
                   health, lastPublished, lastFinished, scheduled,
                   spawner, scan_failed, okMaps>>

\* lines 147-305 on /proc: enumerate, parse every entry, keep what parsed
ScanProc(t) ==
    /\ tpc[t] = "scan"
    /\ ~config.test_data_file
    /\ \E entries \in SUBSET PIDs :
       \E outcome \in [entries -> {"ok", "noname", "memerr"}], name \in [entries -> Names],
          cpu_time \in [entries -> CpuTimes] :
         /\ results' = [results EXCEPT ![t] =
                UNION {ParseEntry(p, outcome[p], name[p], cpu_time[p], config) :
                         p \in entries}]
         /\ scan_failed' = [scan_failed EXCEPT ![t] =
                {p \in entries : outcome[p] \in {"noname", "memerr"}}]
         /\ scan_ok' = [scan_ok EXCEPT ![t] =
                {p \in entries : outcome[p] = "ok"
                                  /\ should_include_process(name[p], config)}]
         /\ tpc' = [tpc EXCEPT ![t] = AfterScan(FALSE, TRUE, scan_failed'[t])]
    /\ UNCHANGED <<componentVars, config, clockVars, cache, lock, previous_cache, scrapeVars,
                   health, lastPublished, lastFinished, scheduled,
                   spawner, okMaps>>

\* the failure exit (lines 152-161): clear is_updating, return Err
FailExit(t) ==
    /\ tpc[t] = "failexit"
    /\ CanWrite(lock)
    /\ lock' = DropWrite(WriteLock(lock, t), t)
    /\ cache' = [cache EXCEPT !.is_updating = FALSE]
    /\ tpc' = [tpc EXCEPT ![t] = "done"]
    /\ results' = [results EXCEPT ![t] = {}]
    /\ previous_cache' = [previous_cache EXCEPT ![t] = EmptyMap]
    /\ lastFinished' = "failed"
    /\ scan_ok' = [scan_ok EXCEPT ![t] = {}]
    /\ scan_failed' = [scan_failed EXCEPT ![t] = {}]
    /\ UNCHANGED <<componentVars, config, clockVars, scrapeVars, health, lastPublished,
                   scheduled, spawner, okMaps>>

\* the publish block (lines 360-374)
Publish(t) ==
    /\ tpc[t] = "publish"
    /\ CanWrite(lock)
    /\ lock' = DropWrite(WriteLock(lock, t), t)
    /\ cache' = [processes |-> ReplaceProcesses(cache.processes, results[t]),
                 last_updated |-> SomeInstant(t),
                 update_success |-> TRUE,
                 is_updating |-> FALSE]
    /\ tpc' = [tpc EXCEPT ![t] = "record"]
    /\ lastPublished' = SamplesByPid(results[t])
    /\ lastFinished' = "ok"
    /\ okMaps' = [s \in Scrapes |->
                    IF spc[s] \notin {"read", "aggregate"} THEN okMaps[s]
                    ELSE okMaps[s] \cup {SamplesByPid(results[t])}]
    /\ UNCHANGED <<componentVars, config, clockVars, previous_cache, results, scrapeVars,
                   health, scheduled, spawner, scan_ok, scan_failed>>

\* after the publish (lines 376-542): aggregation per subgroup, ring records,
\* health statistics; `results` and `previous_cache` are dropped on return
Record(t) ==
    /\ tpc[t] = "record"
    /\ tpc' = [tpc EXCEPT ![t] = "done"]
    /\ results' = [results EXCEPT ![t] = {}]
    /\ previous_cache' = [previous_cache EXCEPT ![t] = EmptyMap]
    /\ scan_ok' = [scan_ok EXCEPT ![t] = {}]
    /\ scan_failed' = [scan_failed EXCEPT ![t] = {}]
    /\ UNCHANGED <<componentVars, config, clockVars, cache, lock, scrapeVars, health,
                   lastPublished, lastFinished, scheduled, spawner, okMaps>>

\* ------------------------------------------------ metrics_handler (scrape)
\* lines 63-70: trigger a refresh when none is running and the last one
\* started at least CACHE_UPDATE_THROTTLE_SECS ago, or none has published
should_trigger_update(c) ==
    /\ ~c.is_updating
    /\ IF c.last_updated.some
       THEN ElapsedAtLeastThrottle(c.last_updated)
       ELSE TRUE

RECURSIVE SumCpuTime(_, _)
SumCpuTime(processes, pids) ==
    IF pids = {} THEN 0
    ELSE LET p == CHOOSE q \in pids : TRUE
         IN  processes[p].cpu_time_seconds + SumCpuTime(processes, pids \ {p})

\* PHASE 1 (lines 120-140): fold the snapshot into one GroupMetrics per
\* (group, subgroup) that classify_process_with_config accepts
Aggregation(processes, cfg) ==
    LET keyOf(p) == classify_process_with_config(processes[p].name, cfg)
        keys == UNION {keyOf(p) : p \in DOMAIN processes}
    IN  [k \in keys |->
            [cpu_time_user_sum |->
                 SumCpuTime(processes, {p \in DOMAIN processes : k \in keyOf(p)}),
             cpu_time_system_sum |-> 0]]

\* prometheus Counter
CounterReset(v) == 0
CounterIncBy(v, d) == v + d

\* PHASE 2 (lines 189-202): every aggregated (group, subgroup) gets its
\* "user" and "system" series reset and then incremented by the sum
ExportCpuSeconds(counters, aggs, cfg) ==
    LET labels == {<<k[1], k[2], mode>> : k \in DOMAIN aggs, mode \in {"user", "system"}}
        valueOf(l) == IF l[3] = "user"
                      THEN aggs[<<l[1], l[2]>>].cpu_time_user_sum
                      ELSE aggs[<<l[1], l[2]>>].cpu_time_system_sum
    IN  IF ~cfg.enable_cpu THEN counters
        ELSE [l \in (DOMAIN counters) \cup labels |->
                 IF l \in labels
                 THEN CounterIncBy(CounterReset(IF l \in DOMAIN counters
                                                 THEN counters[l] ELSE 0),
                                   valueOf(l))
                 ELSE counters[l]]

\* tokio::spawn(update_cache): the first task slot not yet used
FreeTask == {t \in Tasks : tpc[t] = "idle" /\ \A u \in Tasks : tpc[u] = "idle" => t <= u}

\* lines 54-82: the staleness test under a read guard, then the spawn
Check(s) ==
    /\ spc[s] = "idle"
    /\ \A r \in Scrapes : r < s => spc[r] # "idle"
    /\ ServerUp
    /\ CanRead(lock)
    /\ okMaps' = [okMaps EXCEPT ![s] = {lastPublished}]
    /\ spc' = [spc EXCEPT ![s] = "read"]
    /\ IF should_trigger_update(cache)
       THEN \E t \in FreeTask :
              /\ tpc' = [tpc EXCEPT ![t] = "spawned"]
              /\ spawner' = [spawner EXCEPT ![t] = s]
              /\ scheduled' = scheduled + 1
       ELSE UNCHANGED <<tpc, spawner, scheduled>>
    /\ UNCHANGED <<componentVars, config, clockVars, cache, lock, previous_cache, results,
                   group_aggregations, group_cpu_seconds_total, health,
                   lastPublished, lastFinished, scan_ok, scan_failed>>

\* line 89: let cache_guard = state.cache.read().await
AcquireRead(s) ==
    /\ spc[s] = "read"
    /\ CanRead(lock)
    /\ lock' = [lock EXCEPT !.sreaders = @ \cup {s}]
    /\ spc' = [spc EXCEPT ![s] = "aggregate"]
    /\ UNCHANGED <<componentVars, config, clockVars, cache, taskVars, group_aggregations,
                   group_cpu_seconds_total, health, historyVars>>

\* lines 96-143: aggregate under the read guard, then drop it
Aggregate(s) ==
    /\ spc[s] = "aggregate"
    /\ group_aggregations' = [group_aggregations EXCEPT ![s] =
                                 Aggregation(cache.processes, config)]
    /\ lock' = [lock EXCEPT !.sreaders = @ \ {s}]
    /\ spc' = [spc EXCEPT ![s] = "export"]
    /\ okMaps' = [okMaps EXCEPT ![s] = {}]
    /\ UNCHANGED <<componentVars, config, clockVars, cache, taskVars, group_cpu_seconds_total,
                   health, lastPublished, lastFinished, scheduled, spawner,
                   scan_ok, scan_failed>>

\* lines 145-731: set the group series, gather and encode the registry
Export(s) ==
    /\ spc[s] = "export"
    /\ group_cpu_seconds_total' =
           ExportCpuSeconds(group_cpu_seconds_total, group_aggregations[s], config)
    /\ group_aggregations' = [group_aggregations EXCEPT ![s] = EmptyMap]
    /\ spc' = [spc EXCEPT ![s] = "done"]
    /\ UNCHANGED <<componentVars, config, clockVars, cache, lock, taskVars, health, historyVars>>

\* ------------------------------------------------------- health_handler
\* lines 29-36: 200 when update_success and last_updated is set, else 503
HealthStatus(c) ==
    IF c.update_success /\ c.last_updated.some THEN 200 ELSE 503

\* GET /health; the response is kept with the outcome of the most recent
\* refresh to have finished when it was given
Health ==
    /\ ServerUp
    /\ CanRead(lock)
    /\ health' = [status |-> HealthStatus(cache), last |-> lastFinished]
    /\ UNCHANGED <<componentVars, config, clockVars, cache, lock, taskVars, scrapeVars, historyVars>>

Next ==
    \/ Tick
    \/ \E t \in Tasks : Guard(t)
    \/ \E t \in Tasks : Clone(t)
    \/ \E t \in Tasks : ScanTestData(t)
    \/ \E t \in Tasks : ScanProc(t)
    \/ \E t \in Tasks : FailExit(t)
    \/ \E t \in Tasks : Publish(t)
    \/ \E t \in Tasks : Record(t)
    \/ \E s \in Scrapes : Check(s)
    \/ \E s \in Scrapes : AcquireRead(s)
    \/ \E s \in Scrapes : Aggregate(s)
    \/ \E s \in Scrapes : Export(s)

Spec == Init /\ [][Next]_vars

\* the exporter with /health requests arriving as well
NextHealth ==
    \/ Health
    \/ Tick
    \/ \E t \in Tasks : Guard(t)
    \/ \E t \in Tasks : Clone(t)
    \/ \E t \in Tasks : ScanTestData(t)
    \/ \E t \in Tasks : ScanProc(t)
    \/ \E t \in Tasks : FailExit(t)
    \/ \E t \in Tasks : Publish(t)
    \/ \E t \in Tasks : Record(t)
    \/ \E s \in Scrapes : Check(s)
    \/ \E s \in Scrapes : AcquireRead(s)
    \/ \E s \in Scrapes : Aggregate(s)
    \/ \E s \in Scrapes : Export(s)

SpecHealth == Init /\ [][NextHealth]_vars

\* ============================================ the per-sample pipeline
\* What one refresh computes for each PID: get_cpu_stat_for_pid, the ProcMem
\* literal of the /proc scan or the conversion of a test process, and the
\* eBPF overlay.  Refreshes never overlap (the is_updating test), and between
\* its baseline clone and its publish a refresh is the only writer of
\* cache.processes and of cpu_cache, so here a refresh is one step.  Every
\* sample is computed from the /proc entry, the cpu_cache entry, the row of
\* the previous snapshot and the eBPF row of its own PID alone, so the
\* pipeline is followed for one PID.
MaxCpuTime == 1
MaxBytes == 1
MaxNow == 2

ScanPIDs == {1}
CpuSeconds == 0..MaxCpuTime
Bytes == 0..MaxBytes
EbpfStates == {"none", "disabled", "enabled"}

\* (delta_cpu / dt) * 100.0, in whole percent
CpuPercent(delta_cpu, dt) == (delta_cpu * 100) \div dt

\* the percentage without the test for a positive delta
DeltaUnclamped(pid, cpu_time_seconds, cc, t) ==
    IF pid \in DOMAIN cc
    THEN LET dt == t - cc[pid].last_updated
             delta_cpu == cpu_time_seconds - cc[pid].stat.cpu_time_seconds
         IN  IF dt > 0 THEN CpuPercent(delta_cpu, dt) ELSE 0
    ELSE 0

\* cpu.rs lines 104-117: the percentage from the cached entry, 0.0 without one
DeltaPercent(pid, cpu_time_seconds, cc, t) ==
    IF pid \in DOMAIN cc
    THEN LET dt == t - cc[pid].last_updated
             delta_cpu == cpu_time_seconds - cc[pid].stat.cpu_time_seconds
         IN  IF dt > 0 /\ delta_cpu > 0 THEN CpuPercent(delta_cpu, dt) ELSE 0
    ELSE 0

\* cpu.rs lines 90-138: the CpuStat returned for a PID read at time t
get_cpu_stat_for_pid(pid, cpu_time_seconds, cc, t) ==
    [cpu_percent |-> DeltaPercent(pid, cpu_time_seconds, cc, t),
     cpu_time_seconds |-> cpu_time_seconds]

\* cpu.rs lines 125-135, for every PID whose CPU time a scan reads:
\* cache.insert(pid, CpuEntry { stat, last_updated: now })
CpuCacheInsert(cc, read, cpu_time, t) ==
    [p \in (DOMAIN cc) \cup read |->
        IF p \in read
        THEN [stat |-> get_cpu_stat_for_pid(p, cpu_time[p], cc, t), last_updated |-> t]
        ELSE cc[p]]

\* what /proc holds for one PID during one scan:
\*   "gone"    no entry;
\*   "skipped" name unreadable or rejected by should_include_process
\*             (the entry is left before its CPU time is read);
\*   "dropped" CPU time read, then the memory parse fails or USS is too small;
\*   "ok"      a sample is emitted

NetStatMaps == UNION {[ps -> [rx_bytes : Bytes, tx_bytes : Bytes]] : ps \in SUBSET ScanPIDs}

\* cache_updater.rs lines 270-289: the ProcMem of an "ok" entry
ProcSample(pid, stat, prev, t) ==
    [pid |-> pid,
     cpu_percent |-> stat.cpu_percent,
     cpu_time_seconds |-> stat.cpu_time_seconds,
     rx_bytes |-> 0,
     tx_bytes |-> 0,
     last_rx_bytes |-> IF pid \in DOMAIN prev THEN prev[pid].rx_bytes ELSE 0,
     last_tx_bytes |-> IF pid \in DOMAIN prev THEN prev[pid].tx_bytes ELSE 0,
     last_update_time |-> IF pid \in DOMAIN prev THEN prev[pid].last_update_time ELSE t]

FromTestProcess(pid, tp) ==
    [pid |-> pid,
     cpu_percent |-> tp.cpu_percent,
     cpu_time_seconds |-> tp.cpu_time_seconds,
     rx_bytes |-> tp.rx_bytes,
     tx_bytes |-> tp.tx_bytes,
     last_rx_bytes |-> 0,
     last_tx_bytes |-> 0,
     last_update_time |-> 0]

\* a manager that hands out the rows whatever its state
ReadRowsInAnyState(e, stats) == stats

\* ebpf/mod.rs lines 358-361: a disabled manager returns no rows; a failed
\* read of an enabled one is logged and changes no sample, as no row does
read_process_net_stats(e, stats) == IF e = "enabled" THEN stats ELSE EmptyMap

\* cache_updater.rs lines 329-343: one eBPF row applied to its sample
ApplyNetStat(proc, stat, prev, t) ==
    [proc EXCEPT
        !.rx_bytes = stat.rx_bytes,
        !.tx_bytes = stat.tx_bytes,
        !.last_rx_bytes = IF proc.pid \in DOMAIN prev
                          THEN prev[proc.pid].rx_bytes ELSE stat.rx_bytes,
        !.last_tx_bytes = IF proc.pid \in DOMAIN prev
                          THEN prev[proc.pid].tx_bytes ELSE stat.tx_bytes,
        !.last_update_time = t]

\* cache_updater.rs lines 322-358: the overlay when state.ebpf is Some, the
\* timestamp update when it is None
Overlay(rs, prev, e, stats, t) ==
    IF e # "none"
    THEN LET net_stats == read_process_net_stats(e, stats)
         IN  [p \in DOMAIN rs |->
                 IF p \in DOMAIN net_stats
                 THEN ApplyNetStat(rs[p], net_stats[p], prev, t)
                 ELSE rs[p]]
    ELSE [p \in DOMAIN rs |->
             IF p \in DOMAIN prev
             THEN [rs[p] EXCEPT !.last_update_time = t]
             ELSE rs[p]]

InitSamples ==
    /\ CoreInit
    /\ ebpf \in EbpfStates
    /\ snapshot = EmptyMap
    /\ cpu_cache = EmptyMap
    /\ now = 1
    /\ seen = {}
    /\ cpu_cache_before = EmptyMap
    /\ RingIdle
    /\ RecordIdle
    /\ ManagerIdle
    /\ FilterIdle
    /\ AuxIdle

\* a refresh that scans /proc (lines 200-374)
RefreshProc ==
    /\ ~config.test_data_file
    /\ \E d \in {0, 1}, entries \in [ScanPIDs -> {e \in [outcome : {"gone", "skipped", "dropped", "ok"}, cpu_time_seconds : CpuSeconds] : e.outcome \in {"gone", "skipped"} => e.cpu_time_seconds = 0}], stats \in NetStatMaps :
         LET t == now + d
             read == {p \in ScanPIDs : entries[p].outcome \in {"dropped", "ok"}}
             emitted == {p \in ScanPIDs : entries[p].outcome = "ok"}
             cpu_time == [p \in ScanPIDs |-> entries[p].cpu_time_seconds]
             rs == [p \in emitted |->
                       ProcSample(p, get_cpu_stat_for_pid(p, cpu_time[p], cpu_cache, t),
                                  snapshot, t)]
         IN  /\ t <= MaxNow
             /\ now' = t
             /\ cpu_cache' = CpuCacheInsert(cpu_cache, read, cpu_time, t)
             /\ cpu_cache_before' = cpu_cache
             /\ snapshot' = Overlay(rs, snapshot, ebpf, stats, t)
             /\ seen' = seen \cup DOMAIN rs
    /\ UNCHANGED <<coreVars, ebpf, ringVars, recordVars, managerVars, filterVars, auxVars>>

\* a refresh that loads the synthetic dataset (lines 147-198, 307-374)
RefreshTestData ==
    /\ config.test_data_file
    /\ \E d \in {0, 1}, data \in (UNION {[ps -> [cpu_percent : {0, 100}, cpu_time_seconds : CpuSeconds, rx_bytes : Bytes, tx_bytes : Bytes]] : ps \in SUBSET ScanPIDs}), stats \in NetStatMaps :
         LET t == now + d
             rs == [p \in DOMAIN data |-> FromTestProcess(p, data[p])]
         IN  /\ t <= MaxNow
             /\ now' = t
             /\ snapshot' = Overlay(rs, snapshot, ebpf, stats, t)
             /\ seen' = seen \cup DOMAIN rs
    /\ UNCHANGED <<coreVars, ebpf, cpu_cache, cpu_cache_before, ringVars, recordVars, managerVars, filterVars, auxVars>>

\* a refresh whose dataset cannot be loaded (lines 150-162): no sample changes
LoadFails ==
    /\ config.test_data_file
    /\ now < MaxNow
    /\ now' = now + 1
    /\ UNCHANGED <<coreVars, ebpf, snapshot, cpu_cache, seen, cpu_cache_before, ringVars, recordVars, managerVars, filterVars, auxVars>>

NextSamples ==
    \/ RefreshProc
    \/ RefreshTestData
    \/ LoadFails

SpecSamples == InitSamples /\ [][NextSamples]_vars

\* ==================================================== one Ringbuffer
MaxCapacity == 2
MaxPushes == 4
MaxStamp == 2

\* a push that counts every entry
PushCountingAll(rb, entry) ==
    [rb EXCEPT !.entries[rb.write_index + 1] = entry,
               !.write_index = (rb.write_index + 1) % rb.capacity,
               !.count = rb.count + 1]

\* ringbuffer.rs lines 102-109: Ringbuffer::push
push(rb, entry) ==
    [rb EXCEPT !.entries[rb.write_index + 1] = entry,
               !.write_index = (rb.write_index + 1) % rb.capacity,
               !.count = IF rb.count < rb.capacity THEN rb.count + 1 ELSE rb.count]

\* a history read from slot 0 whether the ring has wrapped or not
HistoryFromSlotZero(rb) == SubSeq(rb.entries, 1, rb.count)

\* ringbuffer.rs lines 112-129: Ringbuffer::get_history, oldest first
get_history(rb) ==
    IF rb.count = 0 THEN <<>>
    ELSE IF rb.count < rb.capacity
         THEN SubSeq(rb.entries, 1, rb.count)
         ELSE SubSeq(rb.entries, rb.write_index + 1, rb.capacity)
                 \o SubSeq(rb.entries, 1, rb.write_index)

\* ringbuffer.rs lines 132-139
len(rb) == rb.count
capacity(rb) == rb.capacity

InitRing ==
    /\ CoreInit
    /\ SamplesIdle
    /\ \E c \in 0..MaxCapacity : ring = NewRingbuffer(c)
    /\ pushed = <<>>
    /\ panicked = FALSE
    /\ RecordIdle
    /\ ManagerIdle
    /\ FilterIdle
    /\ AuxIdle

\* rb.push(entry) on a ring that has slots
Push ==
    /\ ~panicked
    /\ ring.capacity > 0
    /\ Len(pushed) < MaxPushes
    /\ \E entry \in [timestamp : 0..MaxStamp] :
         /\ ring' = push(ring, entry)
         /\ pushed' = Append(pushed, entry)
    /\ UNCHANGED <<coreVars, sampleVars, panicked, recordVars, managerVars, filterVars, auxVars>>

\* rb.push(entry) on a ring of capacity 0: self.entries[0] is out of bounds
PushPanics ==
    /\ ~panicked
    /\ ring.capacity = 0
    /\ panicked' = TRUE
    /\ UNCHANGED <<coreVars, sampleVars, ring, pushed, recordVars, managerVars, filterVars, auxVars>>

NextRing ==
    \/ Push
    \/ PushPanics

SpecRing == InitRing /\ [][NextRing]_vars

\* ============================================ the ring-update step
\* update_cache from its first write block to its ring records, with the
\* samples left out: the flag, the wall clock read at line 413 and
\* RingbufferManager::record for every key of aggregated_by_subgroup.  The
\* rings have entries_per_subgroup >= 1 slots here.

\* ringbuffer_manager.rs lines 74-79: RingbufferManager::record
record(bufs, E, subgroup, entry) ==
    [k \in (DOMAIN bufs) \cup {subgroup} |->
        IF k = subgroup
        THEN push(IF subgroup \in DOMAIN bufs THEN bufs[subgroup] ELSE NewRingbuffer(E),
                  entry)
        ELSE bufs[k]]

InitRecord ==
    /\ CoreInit
    /\ SamplesIdle
    /\ RingIdle
    /\ entries_per_subgroup \in 1..MaxCapacity
    /\ buffers = EmptyMap
    /\ rpc = [t \in Refreshes |-> "spawned"]
    /\ timestamp = [t \in Refreshes |-> 0]
    /\ pending = [t \in Refreshes |-> {}]
    /\ ManagerIdle
    /\ FilterIdle
    /\ AuxIdle

\* the wall clock moves on
WallTick ==
    /\ now < MaxNow
    /\ now' = now + 1
    /\ UNCHANGED <<coreVars, ebpf, snapshot, cpu_cache, seen, cpu_cache_before, ringVars, recordVars, managerVars, filterVars, auxVars>>

\* lines 119-129: return if a refresh is running, else set the flag
RecGuard(t) ==
    /\ rpc[t] = "spawned"
    /\ IF MayProceed(cache)
       THEN /\ cache' = MarkUpdating(cache)
            /\ rpc' = [rpc EXCEPT ![t] = "scan"]
       ELSE /\ rpc' = [rpc EXCEPT ![t] = "done"]
            /\ UNCHANGED cache
    /\ UNCHANGED <<config, lock, clockVars, taskVars, scrapeVars, health, historyVars,
                   sampleVars, ringVars, managerVars, filterVars, auxVars, entries_per_subgroup, buffers, timestamp, pending>>

\* lines 142-374: scan, then the publish block, which clears the flag
RecPublish(t) ==
    /\ rpc[t] = "scan"
    /\ cache' = [cache EXCEPT !.update_success = TRUE, !.is_updating = FALSE]
    /\ rpc' = [rpc EXCEPT ![t] = "aggregate"]
    /\ UNCHANGED <<config, lock, clockVars, taskVars, scrapeVars, health, historyVars,
                   sampleVars, ringVars, managerVars, filterVars, auxVars, entries_per_subgroup, buffers, timestamp, pending>>

\* lines 376-413: aggregate by subgroup, then read the wall clock
RecStamp(t) ==
    /\ rpc[t] = "aggregate"
    /\ \E keys \in SUBSET {"web:nginx"} : pending' = [pending EXCEPT ![t] = keys]
    /\ timestamp' = [timestamp EXCEPT ![t] = now]
    /\ rpc' = [rpc EXCEPT ![t] = "record"]
    /\ UNCHANGED <<coreVars, sampleVars, ringVars, managerVars, filterVars, auxVars, entries_per_subgroup, buffers>>

\* lines 414-469: one turn of the loop over aggregated_by_subgroup
RecRecord(t) ==
    /\ rpc[t] = "record"
    /\ pending[t] # {}
    /\ \E key \in pending[t] :
         /\ buffers' = record(buffers, entries_per_subgroup, key,
                              [timestamp |-> timestamp[t]])
         /\ pending' = [pending EXCEPT ![t] = @ \ {key}]
    /\ UNCHANGED <<coreVars, sampleVars, ringVars, managerVars, filterVars, auxVars, entries_per_subgroup, rpc, timestamp>>

\* lines 471-543: the loop is over, the refresh returns
RecReturn(t) ==
    /\ rpc[t] = "record"
    /\ pending[t] = {}
    /\ rpc' = [rpc EXCEPT ![t] = "done"]
    /\ timestamp' = [timestamp EXCEPT ![t] = 0]
    /\ UNCHANGED <<coreVars, sampleVars, ringVars, managerVars, filterVars, auxVars, entries_per_subgroup, buffers, pending>>

NextRecord ==
    \/ WallTick
    \/ \E t \in Refreshes : RecGuard(t)
    \/ \E t \in Refreshes : RecPublish(t)
    \/ \E t \in Refreshes : RecStamp(t)
    \/ \E t \in Refreshes : RecRecord(t)
    \/ \E t \in Refreshes : RecReturn(t)

SpecRecord == InitRecord /\ [][NextRecord]_vars

\* ================================================================ claims
\* a refresh between its flag-set step and its own clearing of the flag
InFlight(t) == tpc[t] \in {"clone", "scan", "publish", "failexit"}

\* the invocation passed the single-flight test (its `start` is on the clock)
PassedGuard(t) == \E i \in 1..Len(starts) : starts[i] = t

\* C1: at most one refresh executes at any time: never are two update_cache
\* invocations both between their flag-set step and their clearing of the
\* flag, and an invocation that finds the flag set returns without scanning
\* and without touching the cache.
C1_SingleFlight ==
    /\ [](Cardinality({t \in Tasks : InFlight(t)}) <= 1)
    /\ [][\A t \in Tasks :
            (tpc[t] = "spawned" /\ cache.is_updating /\ tpc'[t] # "spawned")
                => (tpc'[t] = "done" /\ cache' = cache /\ results'[t] = {})]_vars

\* one refresh is scanning while another invocation has returned at the flag
C1_Witness ==
    \E t, u \in Tasks :
        /\ InFlight(t)
        /\ tpc[u] = "done"
        /\ ~PassedGuard(u)

\* C2: scrapes that find a published snapshot older than the freshness window
\* and no refresh in flight spawn, together, exactly one background
\* update_cache task: from one refresh's flag-set step to the next, no second
\* task is spawned.
C2_OneTaskScheduled == cache.last_updated.some => scheduled <= 1

\* C3: any two refresh executions begin at least one throttle window apart:
\* when an invocation passes the single-flight test and goes on to scan /proc,
\* every earlier refresh began CACHE_UPDATE_THROTTLE_SECS or more ago.
C3_BeginsThrottled ==
    [][\A t \in Tasks :
         (tpc[t] = "spawned" /\ tpc'[t] = "clone" /\ ~config.test_data_file)
             => aged = Len(starts)]_vars

\* C4: while a refresh is in flight the snapshot's PID map is the map of the
\* most recent publish (the empty map before any), and so is the baseline
\* the refresh cloned.
C4_PreviousSnapshotVisible ==
    \A t \in Tasks :
        InFlight(t) =>
            /\ cache.processes = lastPublished
            /\ tpc[t] # "clone" => previous_cache[t] = lastPublished

\* a scrape holds the read guard on a non-empty snapshot during a refresh
C4_Witness ==
    \E t \in Tasks, s \in Scrapes :
        /\ tpc[t] \in {"scan", "publish"}
        /\ spc[s] = "aggregate"
        /\ cache.processes # EmptyMap

\* C5: a scrape that arrives after a refresh has published aggregates the PID
\* map of that publish or of a later one, never an older map.
C5_ObservesCompletedRefresh ==
    [][\A s \in Scrapes :
         (spc[s] = "aggregate" /\ spc'[s] = "export")
             => \E m \in okMaps[s] :
                   /\ cache.processes = m
                   /\ group_aggregations'[s] = Aggregation(m, config)]_vars

\* an on-demand refresh has published a non-empty map, and a scrape that
\* arrived afterwards is about to aggregate it
C5_Witness ==
    \E t \in Tasks \ {0}, s \in Scrapes :
        /\ tpc[t] \in {"record", "done"}
        /\ PassedGuard(t)
        /\ cache.last_updated = SomeInstant(t)
        /\ spc[s] = "aggregate"
        /\ okMaps[s] = {cache.processes}
        /\ cache.processes # EmptyMap

\* C6: a scrape never waits for a refresh: between its lock blocks (while it
\* enumerates, parses and records) a refresh holds no guard on the snapshot,
\* so a scrape about to take its read guard is never blocked by a refresh,
\* and it goes on without the task it spawned having finished.
C6_ScrapeNeverWaits ==
    /\ \A t \in Tasks :
         tpc[t] \in {"clone", "scan", "publish", "failexit", "record"}
             => (t \notin lock.writer /\ t \notin lock.treaders)
    /\ \A s \in Scrapes : spc[s] = "read" => CanRead(lock)

\* a scrape has returned while the refresh it spawned is still scanning
C6_Witness ==
    \E t \in Tasks \ {0} :
        /\ tpc[t] = "scan"
        /\ spawner[t] \in Scrapes
        /\ spc[spawner[t]] = "done"

\* C7: /health answers 200 exactly when the most recent refresh to finish
\* succeeded (so that a snapshot has been published), and 503 otherwise.
C7_HealthFollowsLastRefresh ==
    health.status # 0 => (health.status = 200 <=> health.last = "ok")

\* C8: a publish replaces the PID map wholesale: afterwards the map holds
\* exactly the samples this refresh emitted, and nothing of the old map.
C8_PublishReplaces ==
    [][\A t \in Tasks :
         (tpc[t] = "publish" /\ tpc'[t] = "record")
             => /\ DOMAIN cache'.processes = PidsOf(results[t])
                /\ \A p \in DOMAIN cache'.processes :
                       cache'.processes[p] \in results[t]]_vars

\* a refresh has just published a map that lacks a PID of the map before it
C8_Witness ==
    \E t \in Tasks :
        /\ tpc[t] = "record"
        /\ cache.last_updated = SomeInstant(t)
        /\ \E p \in DOMAIN previous_cache[t] : p \notin DOMAIN cache.processes
        /\ cache.processes # EmptyMap

\* C9: a /proc refresh never aborts on a per-process failure: whatever PIDs
\* fail their name read or memory parse, the scan goes on to the publish
\* step, which sets update_success and publishes the samples of the PIDs
\* that did not fail.
C9_PartialSnapshotPublished ==
    [][\A t \in Tasks :
         /\ (tpc[t] = "scan" /\ ~config.test_data_file /\ tpc'[t] # "scan")
                => tpc'[t] = "publish"
         /\ (tpc[t] = "publish" /\ tpc'[t] # "publish")
                => /\ tpc'[t] = "record"
                   /\ cache'.update_success
                   /\ \A p \in scan_ok[t] :
                         /\ p \in DOMAIN cache'.processes
                         /\ cache'.processes[p] \in results[t]]_vars

\* a refresh in which one PID failed has published the sample of another
C9_Witness ==
    \E t \in Tasks :
        /\ tpc[t] = "record"
        /\ cache.last_updated = SomeInstant(t)
        /\ scan_failed[t] # {}
        /\ scan_ok[t] # {}
        /\ cache.update_success
        /\ scan_ok[t] = DOMAIN cache.processes

\* C10: every _total series is monotonic from one scrape to the next: when a
\* scrape exposes the series of the current snapshot, no label set of
\* group_cpu_seconds_total goes away or takes a smaller value than the scrape
\* before exposed.
C10_CountersMonotonic ==
    [][\A s \in Scrapes :
         (/\ spc[s] = "export" /\ spc'[s] = "done"
          /\ group_aggregations[s] = Aggregation(cache.processes, config))
             => \A l \in DOMAIN group_cpu_seconds_total :
                   /\ l \in DOMAIN group_cpu_seconds_total'
                   /\ group_cpu_seconds_total'[l] >= group_cpu_seconds_total[l]]_vars

C12_HistoryIsLastPushes ==
    LET n == Len(pushed)
        E == ring.capacity
        kept == IF n < E THEN n ELSE E
    IN  get_history(ring) = SubSeq(pushed, n - kept + 1, n)

\* the (E+1)-th push onto a ring of E >= 2 slots has replaced the oldest entry
C12_Witness ==
    /\ ring.capacity >= 2
    /\ Len(pushed) = ring.capacity + 1
    /\ pushed[1] # pushed[2]
    /\ get_history(ring)[1] = pushed[2]

\* C14: for every ring and after every sequence of pushes, len() <= capacity().
C14_LenWithinCapacity == len(ring) <= capacity(ring)

\* a full ring has taken one more push
C14_Witness ==
    /\ len(ring) = capacity(ring)
    /\ Len(pushed) > capacity(ring)

\* C13: in every reachable state of the running exporter and for every
\* subgroup key, the history of the key's ring is in non-decreasing timestamp
\* order (each refresh stamps its records with the wall clock it reads at its
\* ring-update step, and the wall clock never goes back).
C13_HistoryInTimestampOrder ==
    \A k \in DOMAIN buffers :
        LET h == get_history(buffers[k])
        IN  \A i \in 1..(Len(h) - 1) : h[i].timestamp <= h[i + 1].timestamp

\* ---------------------------------------------------------------------------
\* RingbufferManager: the capacity every ring gets, fixed at construction
\* (src/src/ringbuffer_manager.rs)
\* ---------------------------------------------------------------------------

MaxMemoryMb == 1
MaxEntries == 3
MaxRecordRefreshes == 2

\* size of one RingbufferEntry
ENTRY_SIZE_BYTES == 256

BytesPerMb == 1024 * 1024

Max2(a, b) == IF a >= b THEN a ELSE b
Min2(a, b) == IF a <= b THEN a ELSE b

calculated_entries(cfg, initial_subgroup_count) ==
    ((cfg.max_memory_mb * BytesPerMb) \div ENTRY_SIZE_BYTES)
        \div Max2(initial_subgroup_count, 1)

entries_per_subgroup_of(cfg, initial_subgroup_count) ==
    Min2(Max2(calculated_entries(cfg, initial_subgroup_count),
              cfg.min_entries_per_subgroup),
         cfg.max_entries_per_subgroup)

\* RingbufferManager::new; initial_subgroup_count is kept beside the fields
\* of the struct so that properties can refer to the argument
RingbufferManagerNew(cfg, initial_subgroup_count) ==
    [built                  |-> TRUE,
     config                 |-> cfg,
     initial_subgroup_count |-> initial_subgroup_count,
     entries_per_subgroup   |-> entries_per_subgroup_of(cfg, initial_subgroup_count),
     interval_seconds       |-> cfg.interval_seconds,
     estimated_ram_bytes    |-> entries_per_subgroup_of(cfg, initial_subgroup_count)
                                  * ENTRY_SIZE_BYTES
                                  * Max2(initial_subgroup_count, 1)]

\* in_use maps a ring capacity to the number of rings of that capacity
RingsInUse ==
    LET RECURSIVE Sum(_)
        Sum(S) == IF S = {} THEN 0
                  ELSE LET c == CHOOSE x \in S : TRUE
                       IN  in_use[c] + Sum(S \ {c})
    IN  Sum(DOMAIN in_use)

\* record() for n subgroups without a ring: n rings of Ringbuffer::new(E)
CreateRings(rings, E, n) ==
    LET c == capacity(NewRingbuffer(E))
    IN  [x \in DOMAIN rings \cup {c} |->
            (IF x \in DOMAIN rings THEN rings[x] ELSE 0)
            + (IF x = c THEN n ELSE 0)]

InitManager ==
    /\ CoreInit
    /\ SamplesIdle
    /\ RingIdle
    /\ RecordIdle
    /\ ManagerIdle
    /\ FilterIdle
    /\ AuxIdle

\* main builds the manager once
ManagerNew ==
    /\ ~manager.built
    /\ \E cfg \in [max_memory_mb : 0..MaxMemoryMb, interval_seconds : {30}, min_entries_per_subgroup : 0..MaxEntries, max_entries_per_subgroup : 0..MaxEntries], n0 \in {0, 1, 2, 1024, 1366, 2048, 4096, 4097} :
          manager' = RingbufferManagerNew(cfg, n0)
    /\ UNCHANGED <<coreVars, sampleVars, ringVars, recordVars, filterVars, auxVars, in_use, recorded>>

\* the ring-update step of one refresh records entries for n new subgroups
\* (a ring of capacity 0 panics on its first push, see PushPanics)
RecordNewKeys ==
    /\ manager.built
    /\ manager.entries_per_subgroup > 0
    /\ recorded < MaxRecordRefreshes
    /\ \E n \in {1, 1024, 4096} :
          in_use' = CreateRings(in_use, manager.entries_per_subgroup, n)
    /\ recorded' = recorded + 1
    /\ UNCHANGED <<coreVars, sampleVars, ringVars, recordVars, filterVars, auxVars, manager>>

\* the ring-update step of a refresh that meets no new subgroup
RecordKnownKeys ==
    /\ manager.built
    /\ manager.entries_per_subgroup > 0
    /\ in_use # EmptyMap
    /\ recorded < MaxRecordRefreshes
    /\ recorded' = recorded + 1
    /\ UNCHANGED <<coreVars, sampleVars, ringVars, recordVars, filterVars, auxVars, manager, in_use>>

NextManager ==
    \/ ManagerNew
    \/ RecordNewKeys
    \/ RecordKnownKeys

SpecManager == InitManager /\ [][NextManager]_vars

\* C15: with a positive budget, E_min <= E_max and an estimate of at least
\* one subgroup, while the rings in use do not outnumber the estimate the
\* memory of all rings, E x 256 x (rings in use), stays within budget_bytes
C15_MemoryWithinBudget ==
    (/\ manager.built
     /\ manager.config.max_memory_mb > 0
     /\ manager.config.min_entries_per_subgroup
          <= manager.config.max_entries_per_subgroup
     /\ manager.initial_subgroup_count >= 1
     /\ RingsInUse <= manager.initial_subgroup_count)
    => manager.entries_per_subgroup * ENTRY_SIZE_BYTES * RingsInUse
         <= manager.config.max_memory_mb * BytesPerMb

\* C16: the capacity computed at construction is the quotient
\* floor(budget_bytes / 256 / max(1, initial_subgroup_count)) raised to E_min
\* when below it and lowered to E_max when above it, it lies between E_min
\* and E_max, and every ring created by record() has exactly this capacity
C16_CapacityIsClampedQuotient ==
    manager.built =>
        LET E_min == manager.config.min_entries_per_subgroup
            E_max == manager.config.max_entries_per_subgroup
            budget_bytes == manager.config.max_memory_mb * 1048576
            n == IF manager.initial_subgroup_count >= 1
                 THEN manager.initial_subgroup_count ELSE 1
            quotient == (budget_bytes \div 256) \div n
            E == manager.entries_per_subgroup
        IN  /\ E = (IF quotient < E_min THEN E_min
                    ELSE IF quotient > E_max THEN E_max ELSE quotient)
            /\ E_min <= E
            /\ E <= E_max
            /\ \A c \in DOMAIN in_use : c = E

\* C17: in a /proc refresh, a PID that no earlier snapshot held reports
\* cpu_percent = 0 and a zero receive/transmit rate (rx_bytes = last_rx_bytes
\* and tx_bytes = last_tx_bytes) in the snapshot where it first appears
C17_FirstSampleIsZero ==
    [][~config.test_data_file =>
          \A p \in (DOMAIN snapshot') \ seen :
              /\ snapshot'[p].cpu_percent = 0
              /\ snapshot'[p].rx_bytes = snapshot'[p].last_rx_bytes
              /\ snapshot'[p].tx_bytes = snapshot'[p].last_tx_bytes]_vars

\* C18: when a /proc refresh reads for a PID a cumulative CPU time lower
\* than the cached one, the sample reports cpu_percent = 0 and the cached
\* entry becomes the new reading with the time of this refresh
C18_RegressionResetsBaseline ==
    [][~config.test_data_file =>
          \A p \in (DOMAIN snapshot') \cap (DOMAIN cpu_cache) :
              snapshot'[p].cpu_time_seconds < cpu_cache[p].stat.cpu_time_seconds
              => /\ snapshot'[p].cpu_percent = 0
                 /\ cpu_cache'[p] =
                      [stat |-> [cpu_percent |-> 0,
                                 cpu_time_seconds |-> snapshot'[p].cpu_time_seconds],
                       last_updated |-> now']]_vars

\* a refresh, later than the cached reading, has just read a lower CPU time
C18_Witness ==
    /\ ~config.test_data_file
    /\ \E p \in (DOMAIN snapshot) \cap (DOMAIN cpu_cache_before) :
          /\ snapshot[p].cpu_time_seconds
               < cpu_cache_before[p].stat.cpu_time_seconds
          /\ cpu_cache_before[p].last_updated < now
          /\ cpu_cache[p].last_updated = now

\* C19: for two successive /proc refreshes and a PID held by both published
\* snapshots, the cumulative CPU seconds of the later sample are at least
\* those of the earlier one
C19_CpuSecondsNonDecreasing ==
    [][~config.test_data_file =>
          \A p \in (DOMAIN snapshot) \cap (DOMAIN snapshot') :
              snapshot'[p].cpu_time_seconds >= snapshot[p].cpu_time_seconds]_vars

\* ---------------------------------------------------------------------------
\* The classification filter and the two places that aggregate by subgroup:
\* the /metrics handler and the ring-update step of a refresh
\* ---------------------------------------------------------------------------

MaxFilterPid == 2

FilterNames == {"nginx", "postgres", "xyz", "mytool"}

\* cache_updater.rs lines 381-383: the key a sample is aggregated under for
\* the rings
RingKeyOf(name) == classify_process_raw(name)

\* lines 376-447: the keys of aggregated_by_subgroup, each recorded
RecordedSubgroups(results_) == {RingKeyOf(results_[p].name) : p \in DOMAIN results_}

InitFilter ==
    /\ config \in [test_data_file : {FALSE}, include_names : {{}}, exclude_names : {{}}, enable_cpu : {TRUE}, disable_others : BOOLEAN, search_mode : {"none", "include", "exclude"}, search_groups : {{}, {"db"}}, search_subgroups : {{}, {"nginx"}}]
    /\ cache = DefaultCache
    /\ lock = FreeLock
    /\ tpc = [t \in Tasks |-> "idle"]
    /\ starts = <<>>
    /\ aged = 0
    /\ previous_cache = [t \in Tasks |-> EmptyMap]
    /\ results = [t \in Tasks |-> {}]
    /\ spc = [s \in Scrapes |-> "idle"]
    /\ group_aggregations = [s \in Scrapes |-> EmptyMap]
    /\ group_cpu_seconds_total = EmptyMap
    /\ health = NoResponse
    /\ lastPublished = EmptyMap
    /\ lastFinished = "none"
    /\ scheduled = 0
    /\ spawner = [t \in Tasks |-> 0]
    /\ scan_ok = [t \in Tasks |-> {}]
    /\ scan_failed = [t \in Tasks |-> {}]
    /\ okMaps = [s \in Scrapes |-> {}]
    /\ SamplesIdle
    /\ RingIdle
    /\ RecordIdle
    /\ ManagerIdle
    /\ FilterIdle
    /\ AuxIdle

\* a refresh: the scan's samples are published and then aggregated for the
\* rings (lines 363-366 and 376-447)
FilterRefresh ==
    /\ \E rs \in (UNION {[ps -> [name : FilterNames, cpu_time_seconds : {1}]] : ps \in SUBSET (1..MaxFilterPid)}) :
          /\ filter_processes' = rs
          /\ ring_subgroups' = ring_subgroups \cup RecordedSubgroups(rs)
    /\ UNCHANGED <<coreVars, sampleVars, ringVars, recordVars, managerVars, auxVars, metric_keys, classified>>

\* a scrape: PHASE 1 of metrics_handler over the snapshot
FilterScrape ==
    /\ metric_keys' = DOMAIN Aggregation(filter_processes, config)
    /\ UNCHANGED <<coreVars, sampleVars, ringVars, recordVars, managerVars, auxVars,
                   filter_processes, ring_subgroups, classified>>

NextFilter ==
    \/ FilterRefresh
    \/ FilterScrape

SpecFilter == InitFilter /\ [][NextFilter]_vars

\* C20: under search_mode = "include" with search_groups = ["db"], neither a
\* /metrics group series nor a ring exists for a subgroup all of whose
\* processes classify_process_with_config rejects
C20_NoAggregateForRejected ==
    (/\ config.search_mode = "include"
     /\ config.search_groups = {"db"}
     /\ config.search_subgroups = {})
    => \A k \in metric_keys \cup ring_subgroups :
          \E n \in FilterNames :
              /\ classify_process_raw(n) = k
              /\ classify_process_with_config(n, config) # {}

\* ---------------------------------------------------------------------------
\* classify_process_with_config, called on one name under one configuration
\* ---------------------------------------------------------------------------

\* a call of the classifier (metrics.rs line 126) and what it returns
ClassifyName ==
    /\ \E n \in FilterNames :
          classified' = [called |-> TRUE, name |-> n,
                         result |-> classify_process_with_config(n, config)]
    /\ UNCHANGED <<coreVars, sampleVars, ringVars, recordVars, managerVars, auxVars,
                   filter_processes, metric_keys, ring_subgroups>>

SpecClassify == InitFilter /\ [][ClassifyName]_vars

\* C21: the classifier returns None exactly when (a) disable_others is set
\* and the raw group is "other", or (b) search_mode is "include" and neither
\* the raw group is in search_groups nor the raw subgroup in
\* search_subgroups, or (c) search_mode is "exclude" and one of them is;
\* in every other case it returns a pair
C21_NoneExactlyWhenFiltered ==
    classified.called =>
        LET raw == classify_process_raw(classified.name)
            in_groups == raw[1] \in config.search_groups
            in_subgroups == raw[2] \in config.search_subgroups
            a == config.disable_others /\ raw[1] = "other"
            b == config.search_mode = "include" /\ ~in_groups /\ ~in_subgroups
            c == config.search_mode = "exclude" /\ (in_groups \/ in_subgroups)
        IN  /\ (classified.result = {}) <=> (a \/ b \/ c)
            /\ classified.result # {} => Cardinality(classified.result) = 1

\* a name rejected by the "exclude" rule alone
C21_Witness ==
    /\ classified.called
    /\ classified.result = {}
    /\ config.search_mode = "exclude"
    /\ ~config.disable_others

\* C22: a name that survives the filters is returned with its raw
\* (group, subgroup) pair, except that ("other", "unknown") is returned as
\* ("other", "other"); no other pair is altered
C22_OnlyOtherUnknownAltered ==
    (classified.called /\ classified.result # {}) =>
        LET raw == classify_process_raw(classified.name)
        IN  classified.result =
                {IF raw = <<"other", "unknown">> THEN <<"other", "other">> ELSE raw}

\* ---------------------------------------------------------------------------
\* extract_top_3 and the three top-3 arrays of a RingbufferEntry
\* (src/src/cache_updater.rs lines 40-65 and 424-445)
\* ---------------------------------------------------------------------------

MaxMembers == 4

CPU_SCALE_FACTOR == 1000

\* the fields of a member process the arrays are built from; PSS never
\* exceeds RSS.  The code never compares PIDs, so the member at position i
\* of processes_by_subgroup[key] is given PID i.

MemberAt(fs, i) ==
    [pid |-> i, cpu_percent |-> fs[i].cpu_percent, rss |-> fs[i].rss, pss |-> fs[i].pss]

\* one process as the comparator and value_fn of an array see it
Keyed(p, key, value) == [pid |-> p.pid, key |-> key, value |-> value]
ByCpu(ps) ==
    [i \in DOMAIN ps |->
        Keyed(ps[i], ps[i].cpu_percent, ps[i].cpu_percent * CPU_SCALE_FACTOR)]
ByRss(ps) == [i \in DOMAIN ps |-> Keyed(ps[i], ps[i].rss, ps[i].rss \div 1024)]
ByPss(ps) == [i \in DOMAIN ps |-> Keyed(ps[i], ps[i].pss, ps[i].pss \div 1024)]

\* x put behind the elements of the sorted t that do not compare after it
InsertStable(t, x) ==
    LET n == Cardinality({i \in 1..Len(t) : t[i].key >= x.key})
    IN  SubSeq(t, 1, n) \o <<x>> \o SubSeq(t, n + 1, Len(t))

\* the slice left in the order it came
Unsorted(s) == s

\* sorted.sort_by(compare_fn) with compare_fn(a, b) = b.key.cmp(a.key): a
\* stable sort, largest key first
RECURSIVE sort_by(_)
sort_by(s) ==
    IF s = <<>> THEN <<>>
    ELSE InsertStable(sort_by(SubSeq(s, 1, Len(s) - 1)), s[Len(s)])

TopProcessInfoNew(pid, value) == [pid |-> pid, value |-> value]

extract_top_3(keyed) ==
    LET sorted == sort_by(keyed)
    IN  [i \in 1..3 |->
            IF Len(sorted) >= i
            THEN TopProcessInfoNew(sorted[i].pid, sorted[i].value)
            ELSE DefaultTopProcessInfo]

InitTop ==
    /\ CoreInit
    /\ SamplesIdle
    /\ RingIdle
    /\ RecordIdle
    /\ ManagerIdle
    /\ FilterIdle
    /\ AuxIdle

\* the ring-update step builds the entry of one subgroup; the arrays depend
\* on nothing but the members, so the first entry built is the one followed
RecordTop ==
    /\ procs = <<>>
    /\ \E fs \in (UNION {[1..n -> {f \in [cpu_percent : {0, 50}, rss : {1024, 4096}, pss : {1024, 4096}] : f.pss <= f.rss}] : n \in 1..MaxMembers}) :
         LET ps == [i \in DOMAIN fs |-> MemberAt(fs, i)]
         IN  /\ procs' = ps
             /\ top_cpu' = extract_top_3(ByCpu(ps))
             /\ top_rss' = extract_top_3(ByRss(ps))
             /\ top_pss' = extract_top_3(ByPss(ps))
    /\ UNCHANGED <<coreVars, sampleVars, ringVars, recordVars, managerVars, filterVars,
                   ebpfVars, flagVars, detailsVars>>

SpecTop == InitTop /\ [][RecordTop]_vars

\* C23: each top-3 array of a subgroup has its first min(3, member count)
\* slots filled, in non-increasing order of the array's comparator (CPU
\* percent, RSS, PSS of the processes named), and PID 0 in every other slot
C23_TopArraysOrdered ==
    LET filled == IF Len(procs) < 3 THEN Len(procs) ELSE 3
        Ordered(top, key(_)) ==
            /\ \A i \in 1..filled : top[i].pid \in DOMAIN procs
            /\ \A i \in (filled + 1)..3 : top[i].pid = 0
            /\ \A i, j \in 1..filled :
                  i < j => key(procs[top[i].pid]) >= key(procs[top[j].pid])
        cpu(p) == p.cpu_percent
        rss(p) == p.rss
        pss(p) == p.pss
    IN  /\ Ordered(top_cpu, cpu)
        /\ Ordered(top_rss, rss)
        /\ Ordered(top_pss, pss)

\* four members arriving in increasing order of RSS and of CPU percent, and
\* a subgroup of two members is covered by the same runs
C23_Witness ==
    /\ Len(procs) = 4
    /\ procs[1].rss < procs[4].rss
    /\ procs[1].cpu_percent < procs[4].cpu_percent
    /\ top_rss[3].pid # 0
    /\ top_rss[1].value > top_rss[3].value

\* ---------------------------------------------------------------------------
\* EbpfManager: the read methods in each state of the manager
\* (src/src/ebpf/mod.rs)
\* ---------------------------------------------------------------------------

\* Result<T, anyhow::Error>
Ok(v) == [called |-> TRUE, ok |-> TRUE, value |-> v]
Err == [called |-> TRUE, ok |-> FALSE]

DefaultTcpStats == [established |-> 0, listen |-> 0]

is_enabled(e) == e = "enabled"

\* a manager that hands out the block I/O rows whatever its state
ReadBlkioInAnyState(e, rows) == rows

\* lines 426-429 and 431-489: no rows from a manager that is not enabled
read_process_blkio_stats(e, rows) == IF e = "enabled" THEN rows ELSE EmptyMap

\* lines 493-496 and 498-561
read_tcp_stats(e, counts) == IF e = "enabled" THEN counts ELSE DefaultTcpStats

\* a read of an enabled manager fails when its map is not found or a lookup
\* fails (the `?` of lines 370-372 and 438-440)
ReadResult(e, fails, v) == IF e = "enabled" /\ fails THEN Err ELSE Ok(v)

InitEbpf ==
    /\ CoreInit
    /\ ebpf \in EbpfStates
    /\ snapshot = EmptyMap
    /\ cpu_cache = EmptyMap
    /\ now = 1
    /\ seen = {}
    /\ cpu_cache_before = EmptyMap
    /\ RingIdle
    /\ RecordIdle
    /\ ManagerIdle
    /\ FilterIdle
    /\ AuxIdle

EbpfUnchanged ==
    UNCHANGED <<coreVars, sampleVars, ringVars, recordVars, managerVars, filterVars,
                topVars, flagVars, detailsVars>>

IsEnabled ==
    /\ ebpf # "none"
    /\ reads' = [reads EXCEPT !["is_enabled"] = Ok(is_enabled(ebpf))]
    /\ EbpfUnchanged

ReadNetStats ==
    /\ ebpf # "none"
    /\ \E stats \in NetStatMaps, fails \in BOOLEAN :
          reads' = [reads EXCEPT !["read_process_net_stats"] =
                       ReadResult(ebpf, fails, read_process_net_stats(ebpf, stats))]
    /\ EbpfUnchanged

ReadBlkioStats ==
    /\ ebpf # "none"
    /\ \E rows \in (UNION {[ps -> [read_bytes : Bytes, write_bytes : Bytes]] : ps \in SUBSET ScanPIDs}), fails \in BOOLEAN :
          reads' = [reads EXCEPT !["read_process_blkio_stats"] =
                       ReadResult(ebpf, fails, read_process_blkio_stats(ebpf, rows))]
    /\ EbpfUnchanged

ReadTcpStats ==
    /\ ebpf # "none"
    /\ \E counts \in [established : Bytes, listen : Bytes], fails \in BOOLEAN :
          reads' = [reads EXCEPT !["read_tcp_stats"] =
                       ReadResult(ebpf, fails, read_tcp_stats(ebpf, counts))]
    /\ EbpfUnchanged

NextEbpf ==
    \/ IsEnabled
    \/ ReadNetStats
    \/ ReadBlkioStats
    \/ ReadTcpStats

SpecEbpf == InitEbpf /\ [][NextEbpf]_vars

\* C24: a manager in the Disabled state answers is_enabled() with false and
\* every read (network rows, block I/O rows, TCP state counts) with an empty
\* result and no error, whenever it is asked
C24_DisabledReadsEmpty ==
    ebpf = "disabled" =>
        /\ \A m \in EbpfReads : reads[m].called => reads[m].ok
        /\ reads["is_enabled"].called => reads["is_enabled"].value = FALSE
        /\ reads["read_process_net_stats"].called
             => reads["read_process_net_stats"].value = EmptyMap
        /\ reads["read_process_blkio_stats"].called
             => reads["read_process_blkio_stats"].value = EmptyMap
        /\ reads["read_tcp_stats"].called
             => reads["read_tcp_stats"].value = DefaultTcpStats

\* every method of a Disabled manager has been called
C24_Witness ==
    /\ ebpf = "disabled"
    /\ \A m \in EbpfReads : reads[m].called

\* ------------------------------------------------ a refresh and its flag
\* update_cache from its guard to its return, with both exits: the publish
\* block and the load failure of the synthetic dataset.  The blocks take the
\* cache lock as in the exporter's state machine; a scan may end in any way.
MaxDuration == 2
\* lines 119-129: return if a refresh is running, else set the flag
FlagGuard(t) ==
    /\ rpc[t] = "spawned"
    /\ CanWrite(lock)
    /\ lock' = DropWrite(WriteLock(lock, t), t)
    /\ IF MayProceed(cache)
       THEN /\ cache' = MarkUpdating(cache)
            /\ rpc' = [rpc EXCEPT ![t] = "clone"]
            /\ before' = [before EXCEPT ![t] =
                            [called |-> TRUE,
                             processes |-> cache.processes,
                             last_updated |-> cache.last_updated,
                             update_duration_seconds |-> update_duration_seconds]]
       ELSE /\ rpc' = [rpc EXCEPT ![t] = "done"]
            /\ UNCHANGED <<cache, before>>
    /\ UNCHANGED <<config, clockVars, taskVars, scrapeVars, health, historyVars,
                   sampleVars, ringVars, managerVars, filterVars, topVars, ebpfVars,
                   detailsVars, update_duration_seconds, entries_per_subgroup, buffers,
                   timestamp, pending>>

\* lines 142-145: the read block that clones the previous PID map
FlagClone(t) ==
    /\ rpc[t] = "clone"
    /\ CanRead(lock)
    /\ lock' = DropRead(ReadLock(lock, t), t)
    /\ rpc' = [rpc EXCEPT ![t] = "scan"]
    /\ UNCHANGED <<config, cache, clockVars, taskVars, scrapeVars, health, historyVars,
                   sampleVars, ringVars, managerVars, filterVars, auxVars,
                   entries_per_subgroup, buffers, timestamp, pending>>

\* lines 147-305: load the dataset or enumerate /proc; entries may fail
FlagScan(t) ==
    /\ rpc[t] = "scan"
    /\ \E load_ok \in BOOLEAN, failed \in SUBSET PIDs :
         /\ config.test_data_file => failed = {}
         /\ ~config.test_data_file => load_ok
         /\ rpc' = [rpc EXCEPT ![t] = AfterScan(config.test_data_file, load_ok, failed)]
    /\ UNCHANGED <<coreVars, sampleVars, ringVars, managerVars, filterVars, auxVars,
                   entries_per_subgroup, buffers, timestamp, pending>>

\* lines 156-158: the failure exit clears the flag and nothing else
ClearProcesses(c) == [c EXCEPT !.is_updating = FALSE, !.processes = EmptyMap]

ClearUpdating(c) == [c EXCEPT !.is_updating = FALSE]

\* lines 150-162: the dataset could not be loaded
FlagFailExit(t) ==
    /\ rpc[t] = "failexit"
    /\ CanWrite(lock)
    /\ lock' = DropWrite(WriteLock(lock, t), t)
    /\ cache' = ClearUpdating(cache)
    /\ rpc' = [rpc EXCEPT ![t] = "done"]
    /\ UNCHANGED <<config, clockVars, taskVars, scrapeVars, health, historyVars,
                   sampleVars, ringVars, managerVars, filterVars, auxVars,
                   entries_per_subgroup, buffers, timestamp, pending>>

\* lines 360-374: the publish block
FlagPublish(t) ==
    /\ rpc[t] = "publish"
    /\ CanWrite(lock)
    /\ lock' = DropWrite(WriteLock(lock, t), t)
    /\ \E rs \in SampleSets :
         cache' = [processes |-> ReplaceProcesses(cache.processes, rs),
                   last_updated |-> SomeInstant(t),
                   update_success |-> TRUE,
                   is_updating |-> FALSE]
    /\ \E d \in (1..MaxDuration) : update_duration_seconds' = d
    /\ rpc' = [rpc EXCEPT ![t] = "aggregate"]
    /\ UNCHANGED <<config, clockVars, taskVars, scrapeVars, health, historyVars,
                   sampleVars, ringVars, managerVars, filterVars, topVars, ebpfVars,
                   detailsVars, before, entries_per_subgroup, buffers, timestamp, pending>>

NextFlag ==
    \/ WallTick
    \/ \E t \in Refreshes : FlagGuard(t)
    \/ \E t \in Refreshes : FlagClone(t)
    \/ \E t \in Refreshes : FlagScan(t)
    \/ \E t \in Refreshes : FlagFailExit(t)
    \/ \E t \in Refreshes : FlagPublish(t)
    \/ \E t \in Refreshes : RecStamp(t)
    \/ \E t \in Refreshes : RecRecord(t)
    \/ \E t \in Refreshes : RecReturn(t)

SpecFlag == InitRecord /\ [][NextFlag]_vars

\* a refresh is a spawned or awaited future that nothing cancels: each of
\* its blocks runs once it can take the lock
SpecFlagLive ==
    /\ SpecFlag
    /\ \A t \in Refreshes :
          /\ WF_vars(FlagClone(t))
          /\ WF_vars(FlagScan(t))
          /\ WF_vars(FlagFailExit(t))
          /\ WF_vars(FlagPublish(t))

\* C25: every refresh that has set is_updating reaches, whatever its scan
\* met, the publish block or the load-failure exit, and has then set the
\* flag back; so the flag never stays set and a later refresh can start
C25_FlagEventuallyCleared ==
    /\ \A t \in Refreshes :
          (rpc[t] = "clone") ~> (rpc[t] \in {"aggregate", "record", "done"})
    /\ cache.is_updating ~> ~cache.is_updating
    /\ [][\A t \in Refreshes :
            (rpc[t] \in {"failexit", "publish"} /\ rpc'[t] # rpc[t])
                => ~cache'.is_updating]_vars

C25_Witness ==
    /\ \E t \in Refreshes : rpc[t] = "done" /\ before[t].called
    /\ \E t \in Refreshes : rpc[t] = "clone"
    /\ cache.is_updating
    /\ ~cache.update_success

\* C26: when a refresh that could not load the synthetic dataset returns,
\* the PID map, last_updated and update_duration_seconds are what its guard
\* found, it has neither stamped nor pushed a ring record, and the flags are
\* update_success = false, is_updating = false
C26_FailedRefreshFrame ==
    [][\A t \in Refreshes :
         (rpc[t] = "failexit" /\ rpc'[t] # "failexit")
            => /\ rpc'[t] = "done"
               /\ cache'.processes = before[t].processes
               /\ cache'.last_updated = before[t].last_updated
               /\ update_duration_seconds' = before[t].update_duration_seconds
               /\ buffers' = buffers
               /\ pending'[t] = {}
               /\ timestamp'[t] = 0
               /\ ~cache'.update_success
               /\ ~cache'.is_updating]_vars

\* a failed refresh has returned after an earlier one had published samples
C26_Witness ==
    \E t \in Refreshes :
        /\ rpc[t] = "done"
        /\ before[t].called
        /\ before[t].processes # EmptyMap
        /\ before[t].update_duration_seconds > 0
        /\ ~cache.update_success
        /\ ~cache.is_updating

\* C27: in a refresh with a manager that is present but Disabled (no sample
\* gets eBPF data), every sample whose PID was in the previous snapshot has
\* its last_update_time advanced to the refresh's current time
C27_TimestampAdvancedWithoutEbpf ==
    [][(ebpf = "disabled" /\ snapshot' # snapshot)
          => \A p \in DOMAIN snapshot \cap DOMAIN snapshot' :
                snapshot'[p].last_update_time = now']_vars

\* C28: the manager built from a configuration accepted at startup gives its
\* rings a capacity E >= 1 (so that push, which indexes entries[write_index]
\* and reduces modulo the capacity, cannot fail), and every ring in use has
\* such a capacity
C28_CapacityAtLeastOne ==
    /\ manager.built => manager.entries_per_subgroup >= 1
    /\ \A c \in DOMAIN in_use : c >= 1

\* ------------------------------------------------- the forensic analyser
\* classify_temporal_phase on uptimes around its thresholds; the f64 uptime
\* is compared only, so whole seconds stand for it
LIVE_PHASE_SECONDS == 300
STABILIZATION_PHASE_SECONDS == 3600

NewbornNever(uptime_seconds, history_window_seconds) ==
    IF uptime_seconds < LIVE_PHASE_SECONDS THEN "Live"
    ELSE IF uptime_seconds < STABILIZATION_PHASE_SECONDS THEN "Stabilization"
    ELSE "Historical"

classify_temporal_phase(uptime_seconds, history_window_seconds) ==
    IF uptime_seconds < history_window_seconds THEN "Newborn"
    ELSE IF uptime_seconds < LIVE_PHASE_SECONDS THEN "Live"
    ELSE IF uptime_seconds < STABILIZATION_PHASE_SECONDS THEN "Stabilization"
    ELSE "Historical"

\* compute_live_snapshots classifies one process; the window it is given
\* is history_seconds of RingbufferManager::get_stats, E * interval
ClassifyPhase ==
    \E u \in {0, 29, 30, 59, 60, 299, 300, 301, 1800, 3599, 3600, 3601, 7199, 7200}, E \in {1, 2, 10, 120}, interval \in {30, 60} :
        /\ analysed' = [called |-> TRUE,
                        uptime_seconds |-> u,
                        entries_per_subgroup |-> E,
                        interval_seconds |-> interval,
                        phase |-> classify_temporal_phase(u, E * interval)]
        /\ UNCHANGED <<coreVars, sampleVars, ringVars, recordVars, managerVars, filterVars,
                       topVars, ebpfVars, flagVars, start_time, process_uptime>>

SpecPhase == InitManager /\ [][ClassifyPhase]_vars

\* C29 as stated: the phase is Newborn exactly if u < W, Live exactly if
\* W <= u < 300, Stabilization exactly if 300 <= u < 3600 and Historical
\* exactly if u >= 3600, with W = E x interval
C29_PhaseByUptimeAlone ==
    analysed.called =>
        LET u == analysed.uptime_seconds
            W == analysed.entries_per_subgroup * analysed.interval_seconds
        IN  /\ analysed.phase = "Newborn" <=> u < W
            /\ analysed.phase = "Live" <=> (W <= u /\ u < 300)
            /\ analysed.phase = "Stabilization" <=> (300 <= u /\ u < 3600)
            /\ analysed.phase = "Historical" <=> u >= 3600

\* C29, amended: Newborn exactly if u < W; for u >= W the phase is Live if
\* u < 300, Stabilization if 300 <= u < 3600 and Historical if u >= 3600
C29_PhaseNewbornFirst ==
    analysed.called =>
        LET u == analysed.uptime_seconds
            W == analysed.entries_per_subgroup * analysed.interval_seconds
        IN  /\ analysed.phase \in {"Newborn", "Live", "Stabilization", "Historical"}
            /\ analysed.phase = "Newborn" <=> u < W
            /\ analysed.phase = "Live" <=> (W <= u /\ u < 300)
            /\ analysed.phase = "Stabilization" <=> (W <= u /\ 300 <= u /\ u < 3600)
            /\ analysed.phase = "Historical" <=> (W <= u /\ u >= 3600)

\* a process older than five minutes but younger than the history window
C29_Witness ==
    /\ analysed.called
    /\ analysed.entries_per_subgroup * analysed.interval_seconds = 3600
    /\ analysed.uptime_seconds = 1800
    /\ analysed.phase = "Newborn"

\* --------------------------------------------- start time and process age
\* parse_start_time_seconds at a scan and calculate_process_uptime at a later
\* analysis.  Times are whole seconds and field 22 a whole number of seconds
\* in ticks, so that the f64 division is exact.
MaxUptime == 4
CLK_TCK == 100

SystemUptimes == 0..MaxUptime
parse_start_time_seconds(starttime_jiffies, read) ==
    (IF read.ok THEN read.value ELSE 0) - (starttime_jiffies \div CLK_TCK)

calculate_process_uptime(system_uptime, process_start_time) ==
    system_uptime - process_start_time

\* a refresh parses /proc/[pid]/stat of a process that started at or before
\* the current system uptime
ParseStartTime ==
    \E j \in {s * CLK_TCK : s \in SystemUptimes}, up \in SystemUptimes, fails \in BOOLEAN :
        /\ j \div CLK_TCK <= up
        /\ start_time' = [called |-> TRUE,
                          starttime_jiffies |-> j,
                          system_uptime |-> up,
                          start_time_seconds |->
                              parse_start_time_seconds(j, IF fails THEN Err ELSE Ok(up))]
        /\ process_uptime' = NotCalled
        /\ UNCHANGED <<coreVars, sampleVars, ringVars, recordVars, managerVars, filterVars,
                       topVars, ebpfVars, flagVars, analysed>>

\* the analyser reads the system uptime, now or later, and derives the
\* uptime of the sampled process
ProcessUptime ==
    /\ start_time.called
    /\ \E up \in SystemUptimes :
        /\ up >= start_time.system_uptime
        /\ process_uptime' = [called |-> TRUE,
                              system_uptime |-> up,
                              uptime |-> calculate_process_uptime(
                                             up, start_time.start_time_seconds)]
    /\ UNCHANGED <<coreVars, sampleVars, ringVars, recordVars, managerVars, filterVars,
                   topVars, ebpfVars, flagVars, analysed, start_time>>

NextUptime ==
    \/ ParseStartTime
    \/ ProcessUptime

SpecUptime == InitManager /\ [][NextUptime]_vars

\* C30: the stored start time is field 22 divided by the clock-tick rate,
\* and the uptime the analyser derives is the system uptime at the analysis
\* minus that start time, the age of the process
C30_StartTimeIsSecondsSinceBoot ==
    /\ start_time.called =>
          start_time.start_time_seconds = start_time.starttime_jiffies \div CLK_TCK
    /\ process_uptime.called =>
          process_uptime.uptime =
              process_uptime.system_uptime - start_time.starttime_jiffies \div CLK_TCK

====
